---- MODULE Spec2Model ----
(***************************************************************************)
(* On-disk chained hash table (llvm/Support/OnDiskHashTable.h).            *)
(*                                                                         *)
(* The builder (OnDiskChainedHashTableGenerator) is modelled as a state    *)
(* machine: insert() and Emit() are the actions.  The readers              *)
(* (OnDiskChainedHashTable, OnDiskIterableChainedHashTable) never change   *)
(* state: Create, find and the two iterators are operators over the bytes  *)
(* Emit wrote.  The stream is a sequence of bytes; stream offset o is      *)
(* Out[o + 1] and lives at address Base + o.                               *)
(***************************************************************************)
EXTENDS Integers, Sequences, FiniteSets, Bags, TLC

VARIABLES
  NumBuckets,   \* generator: unsigned NumBuckets
  NumEntries,   \* generator: unsigned NumEntries
  Buckets,      \* generator: Bucket *Buckets, a function 0..NumBuckets-1 -> Bucket
  Out,          \* the raw_ostream Emit writes to, prefix bytes included
  TableOff,     \* the value Emit returned
  Payload,      \* the stream offset at which Emit was called
  pc,           \* "building", "emitted" (Emit returned), "aborted" (an assert of Emit failed)
  inserted,     \* history: the (Key, Data) pairs of the insert calls, in call order
  extra,        \* history: TRUE once the caller has inserted a key of ExtraKeys
  resizedAt,    \* history: Len(inserted) when resize last ran (0: never)
  hdrLength,    \* bucket-header check: B.Length of a non-empty bucket
  hdrResult     \* bucket-header check: what lines 152-157 of Emit did with it

vars == <<NumBuckets, NumEntries, Buckets, Out, TableOff, Payload, pc,
          inserted, extra, resizedAt, hdrLength, hdrResult>>

---------------------------------------------------------------------------
(* Bounds of the model.                                                    *)

\* insert calls per run; 48 inserts trigger the first resize
MaxInserts == 50
\* bytes already in the sink when Emit is called: 0..MaxPrefix
MaxPrefix == 2
\* the codec's hash is Key modulo HashMod, so that distinct keys share a hash
HashMod == 128
\* the stream is mapped at address 4 * BasePage
BasePage == 16
\* chain lengths of the bucket-header check: 1..MaxChain
MaxChain == 65600

(* Program constants.                                                      *)

\* OnDiskChainedHashTableGenerator(): NumBuckets = 64
InitialBuckets == 64
\* alignOf<uint32_t>() and sizeof(uint32_t)
WordSize == 4
\* uint16_t holds values below 2^16 (the Length header of a bucket block).
\* The 32-bit quantities (unsigned, uint32_t) stay far below 2^32 within the
\* bounds above, so their arithmetic is written without the wrap-around.
TwoTo16 == 65536

---------------------------------------------------------------------------
(* Little-endian byte order (endian::Writer<little>, endian::readNext).    *)

RECURSIVE Pow256(_)
Pow256(n) == IF n = 0 THEN 1 ELSE 256 * Pow256(n - 1)

\* LE.write<uintN_t>(x): the n low bytes of x, least significant first
LEWrite(x, n) == [i \in 1..n |-> (x \div Pow256(i - 1)) % 256]

RECURSIVE LERead(_, _, _)
\* endian::readNext<uintN_t, little>: the n bytes of s at stream offset off
LERead(s, off, n) ==
  IF n = 0 THEN 0 ELSE s[off + 1] + 256 * LERead(s, off + 1, n - 1)

---------------------------------------------------------------------------
(* The codec (template parameter Info): keys and data are uint32_t written *)
(* as 4 little-endian bytes with no length prefix.                         *)

ComputeHash(Key) == Key % HashMod

\* EmitKeyDataLength / ReadKeyDataLength: <<key length, data length>>; no bytes
KeyDataLength == <<WordSize, WordSize>>

EmitKey(Key, KeyLen) == LEWrite(Key, KeyLen)

EmitData(Key, Data, DataLen) == LEWrite(Data, DataLen)

ReadKey(s, off, KeyLen) == LERead(s, off, KeyLen)

ReadData(Key, s, off, DataLen) == LERead(s, off, DataLen)

EqualKey(Key1, Key2) == Key1 = Key2

GetInternalKey(EKey) == EKey

GetExternalKey(IKey) == IKey

---------------------------------------------------------------------------
(* The generator.                                                          *)

RECURSIVE BitAnd(_, _)
\* a & b on unsigned values
BitAnd(a, b) ==
  IF a = 0 \/ b = 0 THEN 0
  ELSE (a % 2) * (b % 2) + 2 * BitAnd(a \div 2, b \div 2)

\* Hash & (Size - 1): the bucket index of a hash
MaskIndex(Hash, Size) == BitAnd(Hash, Size - 1)

\* Item(Key, Data, InfoObj); Next is the rest of the chain the item is in
Item(Key, Data) == [Key |-> Key, Data |-> Data, Hash |-> ComputeHash(Key)]

\* calloc(Size, sizeof(Bucket)): every field zero, Head null (the empty chain)
ZeroBuckets(Size) ==
  [I \in 0..(Size - 1) |-> [Off |-> 0, Head |-> <<>>, Length |-> 0]]

\* insert as it would be if E were linked at the end of its chain
InsertItem_AtTail(Bs, Size, E) ==
  LET I == MaskIndex(E.Hash, Size) IN
  [Bs EXCEPT ![I] = [Off |-> Bs[I].Off,
                     Head |-> Bs[I].Head \o <<E>>,
                     Length |-> Bs[I].Length + 1]]

\* insert(Bucket *Buckets, size_t Size, Item *E): E becomes the head of its chain
InsertItem(Bs, Size, E) ==
  LET I == MaskIndex(E.Hash, Size) IN
  [Bs EXCEPT ![I] = [Off |-> Bs[I].Off,
                     Head |-> <<E>> \o Bs[I].Head,
                     Length |-> Bs[I].Length + 1]]

RECURSIVE VisitOrder_HeadsOnly(_, _, _)
\* the loops of resize as they would be if E->Next were cleared before it is
\* read: only the head of each old chain is reached
VisitOrder_HeadsOnly(Lo, Hi, OldBs) ==
  IF Lo > Hi THEN <<>>
  ELSE IF Lo = Hi
       THEN (IF OldBs[Lo].Head = <<>> THEN <<>> ELSE <<Head(OldBs[Lo].Head)>>)
  ELSE VisitOrder_HeadsOnly(Lo, (Lo + Hi) \div 2, OldBs)
         \o VisitOrder_HeadsOnly((Lo + Hi) \div 2 + 1, Hi, OldBs)

RECURSIVE VisitOrder(_, _, _)
\* the two loops of resize: the items of the old buckets Lo..Hi in the order
\* the loops reach them, bucket after bucket by index and each chain from
\* its head on (the range is taken as its lower half, then its upper half)
VisitOrder(Lo, Hi, OldBs) ==
  IF Lo > Hi THEN <<>>
  ELSE IF Lo = Hi THEN OldBs[Lo].Head
  ELSE VisitOrder(Lo, (Lo + Hi) \div 2, OldBs)
         \o VisitOrder((Lo + Hi) \div 2 + 1, Hi, OldBs)

\* a chain after insert(NewBuckets, NewSize, E) for each E of Items in turn:
\* each item becomes the head, so the last one inserted comes first
Reverse(Items) == [i \in 1..Len(Items) |-> Items[Len(Items) + 1 - i]]

\* the new array after the loops of resize have inserted the items of Order:
\* a zeroed bucket J receives the items whose hash selects J, in that order
MoveItems(Order, NewSize) ==
  [J \in 0..(NewSize - 1) |->
     [Off |-> 0,
      Head |-> Reverse(SelectSeq(Order, LAMBDA E : MaskIndex(E.Hash, NewSize) = J)),
      Length |-> Len(SelectSeq(Order, LAMBDA E : MaskIndex(E.Hash, NewSize) = J))]]

\* resize(NewSize): the new bucket array
Resize(Bs, Size, NewSize) == MoveItems(VisitOrder(0, Size - 1, Bs), NewSize)

\* the load-factor test as it would be with > for >=
NeedsResize_Strict(Entries, Size) == 4 * Entries > 3 * Size

\* the load-factor test as it would be if made before NumEntries is counted up
NeedsResize_BeforeCount(Entries, Size) == 4 * (Entries - 1) >= 3 * Size

\* the load-factor test of insert
NeedsResize(Entries, Size) == 4 * Entries >= 3 * Size

\* Out.tell()
Tell(out) == Len(out)

\* Emit, lines 152-157, for a bucket with a head: B.Off = Out.tell(), the
\* offset-0 assert, LE.write<uint16_t>(B.Length), the zero-length assert.
\* ok is FALSE when an assert failed; out is what the sink then holds.
EmitBucketHeader(out, Length) ==
  IF Tell(out) = 0 THEN [ok |-> FALSE, out |-> out, Off |-> Tell(out)]
  ELSE [ok |-> Length # 0, out |-> out \o LEWrite(Length, 2), Off |-> Tell(out)]

\* Emit, lines 161-165: one item of a chain
EmitItem(E) ==
  LEWrite(E.Hash, WordSize) \o EmitKey(E.Key, KeyDataLength[1])
    \o EmitData(E.Key, E.Data, KeyDataLength[2])

RECURSIVE EmitChain(_)
\* Emit, lines 160-166: the items of a chain, from its head on
EmitChain(Chain) ==
  IF Chain = <<>> THEN <<>> ELSE EmitItem(Head(Chain)) \o EmitChain(Tail(Chain))

\* the loop body as it would be if B.Off were taken after the Length field
EmitBucketItems_OffAfterHeader(I, h, bks) ==
  [ok |-> h.ok,
   out |-> IF h.ok THEN h.out \o EmitChain(bks[I].Head) ELSE h.out,
   bks |-> [bks EXCEPT ![I].Off = Tell(h.out)]]

\* Emit, lines 152-166: what the loop body does once the header h of bucket I
\* is written.  The result is the state of Emit: ok (no assert failed), out
\* (what the sink holds), bks (the bucket array with the offsets stored).
EmitBucketItems(I, h, bks) ==
  [ok |-> h.ok,
   out |-> IF h.ok THEN h.out \o EmitChain(bks[I].Head) ELSE h.out,
   bks |-> [bks EXCEPT ![I].Off = h.Off]]

\* Emit, lines 147-166: the loop body for bucket I
EmitBucket(I, st) ==
  IF st.bks[I].Head = <<>> THEN st
  ELSE EmitBucketItems(I, EmitBucketHeader(st.out, st.bks[I].Length), st.bks)

RECURSIVE EmitPayload(_, _, _)
\* Emit, lines 146-167: the payload loop over the buckets Lo..Hi, in index
\* order (the range is walked as its lower half, then its upper half); a
\* failed assert ends Emit.
EmitPayload(Lo, Hi, st) ==
  IF ~st.ok \/ Lo > Hi THEN st
  ELSE IF Lo = Hi THEN EmitBucket(Lo, st)
  ELSE EmitPayload((Lo + Hi) \div 2 + 1, Hi, EmitPayload(Lo, (Lo + Hi) \div 2, st))

\* llvm::OffsetToAlignment(Value, Align): what must be added to Value to reach
\* the next multiple of Align
OffsetToAlignment(Value, Align) == (Align - (Value % Align)) % Align

\* the aligned offset as it would be if a whole word were added to an offset
\* that is aligned already
AlignedTableOff_AlwaysAdds(tell) == tell + (WordSize - (tell % WordSize))

\* Emit, lines 170-172: the aligned offset of the directory
AlignedTableOff(tell) == tell + OffsetToAlignment(tell, WordSize)

\* Emit, lines 173-174: the padding
ZeroPad(N) == [i \in 1..N |-> 0]

\* Emit, lines 179-180: the offset words of the buckets, in index order
EmitOffsets(Size, bks) ==
  [j \in 1..(WordSize * Size) |->
     (bks[(j - 1) \div WordSize].Off \div Pow256((j - 1) % WordSize)) % 256]

\* the directory as it would be with NumEntries written before NumBuckets
EmitDirectory_FieldsSwapped(Size, Entries, bks) ==
  LEWrite(Entries, WordSize) \o LEWrite(Size, WordSize) \o EmitOffsets(Size, bks)

\* Emit, lines 177-180: the directory
EmitDirectory(Size, Entries, bks) ==
  LEWrite(Size, WordSize) \o LEWrite(Entries, WordSize) \o EmitOffsets(Size, bks)

\* What the sink holds before Emit is called: n bytes of some header
Prefix(n) == [i \in 1..n |-> 255]

---------------------------------------------------------------------------
(* The actions.                                                            *)

\* The keys of the extra inserts: key 7 again, a key of the same bucket under
\* 64 buckets but of another hash, and another key of the same hash.
ExtraKeys == {7, 7 + InitialBuckets, 7 + HashMod}

\* the data of the insert calls: FillData(Key), or another value for an extra
FillData(Key) == 256 + Key

ExtraData(Key) == {FillData(Key), FillData(Key) + TwoTo16}

Init ==
  /\ NumEntries = 0
  /\ NumBuckets = InitialBuckets
  /\ Buckets = ZeroBuckets(InitialBuckets)
  /\ Out = <<>>
  /\ TableOff = 0
  /\ Payload = 0
  /\ pc = "building"
  /\ inserted = <<>>
  /\ extra = FALSE
  /\ resizedAt = 0
  /\ hdrLength = 0
  /\ hdrResult = [ok |-> TRUE, out |-> <<>>, Off |-> 0]

\* insert(Key, Data, InfoObj), lines 122-130, with NumEntries already counted
\* up to Entries
InsertEntry(Key, Data, Entries, Grow) ==
  /\ NumEntries' = Entries
  /\ NumBuckets' = IF Grow THEN NumBuckets * 2 ELSE NumBuckets
  /\ Buckets' = IF Grow
                THEN InsertItem(Resize(Buckets, NumBuckets, NumBuckets * 2),
                                NumBuckets * 2, Item(Key, Data))
                ELSE InsertItem(Buckets, NumBuckets, Item(Key, Data))
  /\ resizedAt' = IF Grow THEN Len(inserted) ELSE resizedAt

\* insert(Key, Data, InfoObj), lines 122-130
Insert(Key, Data) ==
  /\ pc = "building"
  /\ Len(inserted) < MaxInserts
  /\ InsertEntry(Key, Data, NumEntries + 1, NeedsResize(NumEntries + 1, NumBuckets))
  /\ inserted' = Append(inserted, [Key |-> Key, Data |-> Data])
  /\ UNCHANGED <<Out, TableOff, Payload, pc, hdrLength, hdrResult>>

\* the caller inserts the next key of 0, 1, 2, ...
InsertNext ==
  /\ Insert(Len(inserted), FillData(Len(inserted)))
  /\ extra' = extra

\* the caller inserts a key of ExtraKeys, once in a run
InsertExtra ==
  /\ ~extra
  /\ \E Key \in ExtraKeys : \E Data \in ExtraData(Key) : Insert(Key, Data)
  /\ extra' = TRUE

\* Emit, lines 169-182, after a payload loop that ended with p
EmitTable(p) ==
  IF ~p.ok
  THEN /\ pc' = "aborted"
       /\ Out' = p.out
       /\ Buckets' = p.bks
       /\ TableOff' = TableOff
  ELSE /\ pc' = "emitted"
       /\ Out' = p.out \o ZeroPad(OffsetToAlignment(Tell(p.out), WordSize))
                       \o EmitDirectory(NumBuckets, NumEntries, p.bks)
       /\ Buckets' = p.bks
       /\ TableOff' = AlignedTableOff(Tell(p.out))

\* Emit(Out, InfoObj), lines 141-183, on a sink that holds n bytes
Emit(n) ==
  /\ pc = "building"
  /\ EmitTable(EmitPayload(0, NumBuckets - 1,
                           [ok |-> TRUE, out |-> Prefix(n), bks |-> Buckets]))
  /\ Payload' = n
  /\ UNCHANGED <<NumBuckets, NumEntries, inserted, extra, resizedAt, hdrLength, hdrResult>>

Next ==
  \/ InsertNext
  \/ InsertExtra
  \/ \E n \in 0..MaxPrefix : Emit(n)

Spec == Init /\ [][Next]_vars

---------------------------------------------------------------------------
(* The readers.  A pointer is an address: Base + stream offset; 0 is the   *)
(* null pointer.  s is the byte region the reader borrows.                 *)

\* the address of stream offset 0
Base == WordSize * BasePage

\* endian::readNext<uintN_t, little>(Ptr) for a pointer into the stream at Bs
ReadPtr(s, Bs, Ptr, n) == LERead(s, Ptr - Bs, n)

\* OnDiskIterableChainedHashTable::Create (and OnDiskChainedHashTable::Create,
\* which takes no Payload): the two asserts, then the header words.
\* ok is FALSE when an assert failed.
Create(s, BucketsPtr, PayloadPtr, BasePtr) ==
  IF ~(BucketsPtr > BasePtr) \/ BitAnd(BucketsPtr, 3) # 0
  THEN [ok |-> FALSE, NumBuckets |-> 0, NumEntries |-> 0, Buckets |-> 0,
        Payload |-> 0, Base |-> BasePtr]
  ELSE [ok |-> TRUE,
        NumBuckets |-> ReadPtr(s, BasePtr, BucketsPtr, WordSize),
        NumEntries |-> ReadPtr(s, BasePtr, BucketsPtr + WordSize, WordSize),
        Buckets |-> BucketsPtr + 2 * WordSize,
        Payload |-> PayloadPtr,
        Base |-> BasePtr]

\* The content of a member that no constructor initialised: it may be any
\* value of its type (whatever the memory held before), so the model gives it
\* no number at all.  Nothing may depend on it: comparing it with a number or
\* computing with it is an error of the evaluation, not a result.
Indeterminate == "indeterminate"

\* iterator(): Data(0), Len(0); Key is not initialised
EndIterator == [Key |-> Indeterminate, Data |-> 0, Len |-> 0]

\* iterator::operator==
IteratorEq(X, Y) == X.Data = Y.Data

\* iterator::operator*
IteratorDeref(s, rd, It) == ReadData(It.Key, s, It.Data - rd.Base, It.Len)

RECURSIVE FindLoop_NoKeyCheck(_, _, _, _, _, _)
\* the loop of find as it would be if a matching hash were taken for a match
FindLoop_NoKeyCheck(s, rd, i, Length, Items, IKey) ==
  IF i >= Length THEN EndIterator
  ELSE LET ItemHash == ReadPtr(s, rd.Base, Items, WordSize)
           KeyPtr == Items + WordSize
           L == KeyDataLength
           ItemLen == L[1] + L[2]
       IN IF ItemHash # ComputeHash(IKey)
          THEN FindLoop_NoKeyCheck(s, rd, i + 1, Length, KeyPtr + ItemLen, IKey)
          ELSE [Key |-> ReadKey(s, KeyPtr - rd.Base, L[1]),
                Data |-> KeyPtr + L[1], Len |-> L[2]]

RECURSIVE FindLoop(_, _, _, _, _, _)
\* find, lines 300-328: the loop from item i on; Items points at its hash
FindLoop(s, rd, i, Length, Items, IKey) ==
  IF i >= Length THEN EndIterator
  ELSE LET ItemHash == ReadPtr(s, rd.Base, Items, WordSize)
           KeyPtr == Items + WordSize
           L == KeyDataLength
           ItemLen == L[1] + L[2]
       IN IF ItemHash # ComputeHash(IKey)
          THEN FindLoop(s, rd, i + 1, Length, KeyPtr + ItemLen, IKey)
          ELSE IF ~EqualKey(ReadKey(s, KeyPtr - rd.Base, L[1]), IKey)
          THEN FindLoop(s, rd, i + 1, Length, KeyPtr + ItemLen, IKey)
          ELSE [Key |-> ReadKey(s, KeyPtr - rd.Base, L[1]),
                Data |-> KeyPtr + L[1], Len |-> L[2]]

\* find(EKey), lines 279-329
Find(s, rd, EKey) ==
  LET IKey == GetInternalKey(EKey)
      Idx == MaskIndex(ComputeHash(IKey), rd.NumBuckets)
      Offset == ReadPtr(s, rd.Base, rd.Buckets + WordSize * Idx, WordSize)
  IN IF Offset = 0 THEN EndIterator
     ELSE FindLoop(s, rd, 0, ReadPtr(s, rd.Base, rd.Base + Offset, 2),
                   rd.Base + Offset + 2, IKey)

\* key_begin() / data_begin()
IterBegin(rd) ==
  [Ptr |-> rd.Payload, NumItemsInBucketLeft |-> 0, NumEntriesLeft |-> rd.NumEntries]

\* key_end() / data_end()
IterEnd == [Ptr |-> 0, NumItemsInBucketLeft |-> 0, NumEntriesLeft |-> 0]

\* key_iterator operator== (friend), data_iterator::operator==
IterEq(X, Y) == X.NumEntriesLeft = Y.NumEntriesLeft

\* operator++ as it would be if the Length field were read but not stepped over
KeyIterIncr_HeaderNotSkipped(s, rd, It) ==
  LET AtHeader == It.NumItemsInBucketLeft = 0
      Left == IF AtHeader THEN ReadPtr(s, rd.Base, It.Ptr, 2)
              ELSE It.NumItemsInBucketLeft
      P == It.Ptr + WordSize
  IN [ok |-> Left # 0 /\ It.NumEntriesLeft # 0,
      it |-> [Ptr |-> P + KeyDataLength[1] + KeyDataLength[2],
              NumItemsInBucketLeft |-> Left - 1,
              NumEntriesLeft |-> It.NumEntriesLeft - 1]]

\* key_iterator::operator++, lines 404-421.  ok is FALSE when an assert failed.
KeyIterIncr(s, rd, It) ==
  LET AtHeader == It.NumItemsInBucketLeft = 0
      Left == IF AtHeader THEN ReadPtr(s, rd.Base, It.Ptr, 2)
              ELSE It.NumItemsInBucketLeft
      P == (IF AtHeader THEN It.Ptr + 2 ELSE It.Ptr) + WordSize
  IN [ok |-> Left # 0 /\ It.NumEntriesLeft # 0,
      it |-> [Ptr |-> P + KeyDataLength[1] + KeyDataLength[2],
              NumItemsInBucketLeft |-> Left - 1,
              NumEntriesLeft |-> It.NumEntriesLeft - 1]]

\* data_iterator::operator++, lines 471-488.  ok is FALSE when an assert failed.
DataIterIncr(s, rd, It) ==
  LET AtHeader == It.NumItemsInBucketLeft = 0
      Left == IF AtHeader THEN ReadPtr(s, rd.Base, It.Ptr, 2)
              ELSE It.NumItemsInBucketLeft
      P == (IF AtHeader THEN It.Ptr + 2 ELSE It.Ptr) + WordSize
  IN [ok |-> Left # 0 /\ It.NumEntriesLeft # 0,
      it |-> [Ptr |-> P + KeyDataLength[1] + KeyDataLength[2],
              NumItemsInBucketLeft |-> Left - 1,
              NumEntriesLeft |-> It.NumEntriesLeft - 1]]

\* key_iterator::operator*, lines 426-439
KeyIterDeref(s, rd, It) ==
  LET LocalPtr == (IF It.NumItemsInBucketLeft = 0 THEN It.Ptr + 2 ELSE It.Ptr)
                    + WordSize
  IN GetExternalKey(ReadKey(s, LocalPtr - rd.Base, KeyDataLength[1]))

\* data_iterator::operator*, lines 493-506
DataIterDeref(s, rd, It) ==
  LET LocalPtr == (IF It.NumItemsInBucketLeft = 0 THEN It.Ptr + 2 ELSE It.Ptr)
                    + WordSize
      Key == ReadKey(s, LocalPtr - rd.Base, KeyDataLength[1])
  IN ReadData(Key, s, LocalPtr + KeyDataLength[1] - rd.Base, KeyDataLength[2])

RECURSIVE IterWalk(_, _, _, _, _)
\* for (K = key_begin(), D = data_begin(); K != key_end(); ++K, ++D): the
\* <<*K, *D>> met, in order; ok is FALSE when an assert of operator++ failed
\* or the data iterator did not reach data_end() together with K.
IterWalk(s, rd, K, D, acc) ==
  IF IterEq(K, IterEnd) THEN [ok |-> IterEq(D, IterEnd), pairs |-> acc]
  ELSE IF IterEq(D, IterEnd) THEN [ok |-> FALSE, pairs |-> acc]
  ELSE IF ~KeyIterIncr(s, rd, K).ok \/ ~DataIterIncr(s, rd, D).ok
       THEN [ok |-> FALSE, pairs |-> acc]
       ELSE IterWalk(s, rd, KeyIterIncr(s, rd, K).it, DataIterIncr(s, rd, D).it,
                     Append(acc, <<KeyIterDeref(s, rd, K), DataIterDeref(s, rd, D)>>))

\* The reader a caller builds over what Emit wrote: the directory at the
\* offset Emit returned, the payload at the offset Emit was called at.
Reader == Create(Out, Base + TableOff, Base + Payload, Base)

---------------------------------------------------------------------------
(* What the claims speak of, in terms of the history of insert calls.      *)

\* the keys inserted so far
InsertedKeys == {inserted[i].Key : i \in DOMAIN inserted}

\* the insert calls that used key k
InsertsOf(k) == {i \in DOMAIN inserted : inserted[i].Key = k}

\* the data of the most recent insert of k
LastData(k) ==
  inserted[CHOOSE i \in InsertsOf(k) : \A j \in InsertsOf(k) : j <= i].Data

\* k was inserted by the call that last resized the table or by a later one
\* (by any call, when the table was never resized)
InsertedSinceResize(k) == \E i \in InsertsOf(k) : i > resizedAt

\* the keys looked up: the keys of the sequence, the extra keys, and one more
\* key of the hash of key 7
ProbeKeys == (0..MaxInserts) \cup ExtraKeys \cup {7 + 2 * HashMod}

\* the multiset of the elements of a sequence
SeqBag(seq) ==
  [x \in {seq[i] : i \in DOMAIN seq} |-> Cardinality({i \in DOMAIN seq : seq[i] = x})]

\* the <<Key, Data>> pairs of the insert calls
InsertedPairs == [i \in DOMAIN inserted |-> <<inserted[i].Key, inserted[i].Data>>]

\* a reader can be built over what Emit wrote
Readable == pc = "emitted" /\ Reader.ok

---------------------------------------------------------------------------
(* C1: find after Emit, for an inserted key.                               *)

\* It == end()
IsEnd(It) == IteratorEq(It, EndIterator)

\* It != end()
IsNotEnd(It) == ~IteratorEq(It, EndIterator)

\* the iterator It is not end() and dereferences to the data of the most
\* recent insert of k
FoundMostRecent(k, rd, It) ==
  IsNotEnd(It) /\ IteratorDeref(Out, rd, It) = LastData(k)

\* the iterator It is not end() and dereferences to the data of some insert of
\* k, the most recent one when k was inserted since the last resize
FoundSomeInserted(k, rd, It) ==
  /\ IsNotEnd(It)
  /\ IteratorDeref(Out, rd, It) \in {inserted[i].Data : i \in InsertsOf(k)}
  /\ InsertedSinceResize(k) => IteratorDeref(Out, rd, It) = LastData(k)

\* find on the reader rd gives every inserted key its most recent data
AllFoundMostRecent(rd) ==
  \A k \in InsertedKeys : FoundMostRecent(k, rd, Find(Out, rd, k))

\* find on the reader rd gives every inserted key the data of one of its inserts
AllFoundSomeInserted(rd) ==
  \A k \in InsertedKeys : FoundSomeInserted(k, rd, Find(Out, rd, k))

\* C1 as stated: for every inserted key k, find(k) on a reader over the
\* emitted bytes is not end() and dereferences to the data of the most recent
\* insert of k.
C1_MostRecentValue == Readable => AllFoundMostRecent(Reader)

\* C1 (amended): for every inserted key k, find(k) on a reader over the
\* emitted bytes is not end() and dereferences to the data of some insert of
\* k; it is the data of the most recent insert of k when k was inserted by the
\* call that last resized the table or later (or the table never resized).
C1_SomeInsertedValue == Readable => AllFoundSomeInserted(Reader)

\* a table that was resized, where a key was inserted twice with two values
\* after the resize, and find returns the later value
C1_Witness ==
  /\ Readable
  /\ NumBuckets > InitialBuckets
  /\ \E k \in InsertedKeys :
       /\ Cardinality({inserted[i].Data : i \in InsertsOf(k)}) = 2
       /\ InsertedSinceResize(k)
       /\ IteratorDeref(Out, Reader, Find(Out, Reader, k)) = LastData(k)

---------------------------------------------------------------------------
(* C2: find after Emit, present and absent keys.                           *)

\* find(k) returned It: end() if k was never inserted, not end() if it was
EndIffAbsent(k, It) ==
  /\ k \notin InsertedKeys => IsEnd(It)
  /\ k \in InsertedKeys => IsNotEnd(It)

\* find on the reader rd tells the inserted keys from the others
AllEndIffAbsent(rd) ==
  \A k \in ProbeKeys : EndIffAbsent(k, Find(Out, rd, k))

\* C2: find(k) is end() for every key never inserted, also when an inserted
\* key has the same hash or the same bucket index, and is not end() for every
\* inserted key.
C2_FindEndIffAbsent == Readable => AllEndIffAbsent(Reader)

\* key 7 is in the table and found; two absent keys of its bucket, one of its
\* hash (7 + HashMod) and one of another hash (7 + 64), are looked up and give
\* end()
C2_Witness ==
  /\ Readable
  /\ NumBuckets = InitialBuckets
  /\ 7 \in InsertedKeys
  /\ 7 + HashMod \notin InsertedKeys
  /\ 7 + InitialBuckets \notin InsertedKeys
  /\ ComputeHash(7 + HashMod) = ComputeHash(7)
  /\ ComputeHash(7 + InitialBuckets) # ComputeHash(7)
  /\ MaskIndex(ComputeHash(7 + InitialBuckets), NumBuckets)
       = MaskIndex(ComputeHash(7), NumBuckets)
  /\ IsNotEnd(Find(Out, Reader, 7))
  /\ IsEnd(Find(Out, Reader, 7 + HashMod))
  /\ IsEnd(Find(Out, Reader, 7 + InitialBuckets))

---------------------------------------------------------------------------
(* C3: iteration after Emit.                                               *)

\* the walk w failed no assert, made NumEntries increments and met the
\* inserted pairs
WalkYieldsInserted(w) ==
  /\ w.ok
  /\ Len(w.pairs) = NumEntries
  /\ SeqBag(w.pairs) = SeqBag(InsertedPairs)

\* C3: a key_iterator and a data_iterator advanced from begin reach end after
\* exactly NumEntries increments, failing no assert, and the multiset of the
\* (key, value) pairs they dereference to is the multiset of inserted pairs.
C3_IterationYieldsInserted ==
  Readable =>
    WalkYieldsInserted(IterWalk(Out, Reader, IterBegin(Reader), IterBegin(Reader), <<>>))

\* an iteration over a resized table that holds the same pair twice and
\* buckets of one and of several items
C3_Witness ==
  /\ Readable
  /\ NumBuckets > InitialBuckets
  /\ \E x \in DOMAIN SeqBag(InsertedPairs) : SeqBag(InsertedPairs)[x] = 2
  /\ \E I \in DOMAIN Buckets : Buckets[I].Length = 1
  /\ \E I \in DOMAIN Buckets : Buckets[I].Length > 1
  /\ Len(IterWalk(Out, Reader, IterBegin(Reader), IterBegin(Reader), <<>>).pairs)
       = Len(inserted)

---------------------------------------------------------------------------
(* C4: Emit on a sink at offset 0.                                         *)

\* C4: Emit called on a sink at offset 0 fails an assert, whatever was
\* inserted (also nothing), with no byte written and no offset returned.
C4_OffsetZeroAlwaysRejected ==
  (pc # "building" /\ Payload = 0) => (pc = "aborted" /\ Out = <<>>)

---------------------------------------------------------------------------
(* C5: the 16-bit Length header of a bucket.  The header code of Emit is   *)
(* applied to chains of every length up to MaxChain and sinks of every     *)
(* prefix up to MaxPrefix.                                                 *)

\* a builder as constructed, and the length of the chain of a bucket with a head
InitLen ==
  /\ NumEntries = 0
  /\ NumBuckets = InitialBuckets
  /\ Buckets = ZeroBuckets(InitialBuckets)
  /\ Out = <<>>
  /\ TableOff = 0
  /\ Payload = 0
  /\ pc = "building"
  /\ inserted = <<>>
  /\ extra = FALSE
  /\ resizedAt = 0
  /\ hdrLength \in 1..MaxChain
  /\ hdrResult = [ok |-> TRUE, out |-> <<>>, Off |-> 0]

\* Emit, lines 152-157, for a bucket of hdrLength items on a sink of n bytes
EmitHeader(n) ==
  /\ pc = "building"
  /\ hdrResult' = EmitBucketHeader(Prefix(n), hdrLength)
  /\ pc' = "header"
  /\ Payload' = n
  /\ UNCHANGED <<NumBuckets, NumEntries, Buckets, Out, TableOff, inserted, extra,
                 resizedAt, hdrLength>>

NextLen == \E n \in 0..MaxPrefix : EmitHeader(n)

SpecLen == InitLen /\ [][NextLen]_vars

\* C5: for a chain of more than 65535 items the header code of Emit fails an
\* assert and writes no Length field (so never the count modulo 2^16, and
\* never 0 for a bucket that has items).
C5_OverlongChainRejected ==
  (pc = "header" /\ hdrLength >= TwoTo16) =>
    (~hdrResult.ok /\ hdrResult.out = Prefix(Payload))

---------------------------------------------------------------------------
(* The emitted bytes, as the claims about the directory read them.         *)

\* the word at stream offset off
WordAt(off) == LERead(Out, off, WordSize)

\* the NumBuckets and NumEntries fields of the directory at TableOff
DirNumBuckets == WordAt(TableOff)

DirNumEntries == WordAt(TableOff + WordSize)

\* BucketOffset[i] of the directory at TableOff
DirBucketOffset(i) == WordAt(TableOff + 2 * WordSize + WordSize * i)

\* hash AND (Size - 1) for the key of each insert call, in call order
BucketOfInsert(Size) ==
  <<>> \o [j \in DOMAIN inserted |-> MaskIndex(ComputeHash(inserted[j].Key), Size)]

\* the number of insert calls whose index in Idx is i
CountIn(Idx, i) == Cardinality({j \in DOMAIN Idx : Idx[j] = i})

\* the bytes of one emitted item: hash, key, data
ItemSize == WordSize + KeyDataLength[1] + KeyDataLength[2]

\* the buckets that hold at least one inserted entry
NonEmptyBuckets ==
  {MaskIndex(ComputeHash(inserted[j].Key), NumBuckets) : j \in DOMAIN inserted}

\* the sink position after the last bucket block (table_off): the prefix, a
\* 2-byte header per bucket that holds entries, the items
PayloadEnd == Payload + 2 * Cardinality(NonEmptyBuckets) + ItemSize * Len(inserted)

---------------------------------------------------------------------------
(* C6: the bucket offsets of the directory.                                *)

\* bucket i of Size, to which Cnt insert calls map and whose directory word
\* is Off, is as C6 says
BucketAsCounted(i, Cnt, Off, Size) ==
  /\ Off = 0 <=> Cnt = 0
  /\ Off # 0 =>
       /\ LERead(Out, Off, 2) = Cnt
       /\ \A e \in 0..(Cnt - 1) :
            MaskIndex(WordAt(Off + 2 + ItemSize * e), Size) = i

AllBucketsAsCounted(Idx, Size) ==
  \A i \in 0..(Size - 1) :
    BucketAsCounted(i, CountIn(Idx, i), DirBucketOffset(i), Size)

\* C6: in the emitted bytes, for every bucket index i, BucketOffset[i] is 0
\* exactly when no inserted entry has hash AND (NumBuckets - 1) = i; otherwise
\* the u16 at that offset is the number of such entries and each of the items
\* that follow carries a stored hash that maps to i.
C6_BucketOffsets ==
  pc = "emitted" =>
    AllBucketsAsCounted(BucketOfInsert(DirNumBuckets), DirNumBuckets)

\* an emitted table of 128 buckets with an empty bucket, whose offset is 0, and
\* a bucket of several entries, whose offset is not
C6_Witness ==
  /\ pc = "emitted"
  /\ DirNumBuckets = 2 * InitialBuckets
  /\ \E i \in 0..(DirNumBuckets - 1) :
       CountIn(BucketOfInsert(DirNumBuckets), i) = 0 /\ DirBucketOffset(i) = 0
  /\ \E i \in 0..(DirNumBuckets - 1) :
       /\ CountIn(BucketOfInsert(DirNumBuckets), i) >= 2
       /\ DirBucketOffset(i) # 0
       /\ LERead(Out, DirBucketOffset(i), 2) >= 2

---------------------------------------------------------------------------
(* C7: the alignment of the directory.                                     *)

\* C7: the offset Emit returns is a multiple of 4, the smallest one that is
\* >= table_off, the position of the NumBuckets word, and the
\* (-table_off) mod 4 bytes from table_off up to it are zero.
C7_AlignedDirectory ==
  pc = "emitted" =>
    /\ TableOff % 4 = 0
    /\ TableOff >= PayloadEnd
    /\ TableOff - PayloadEnd < 4
    /\ TableOff - PayloadEnd = (0 - PayloadEnd) % 4
    /\ \A j \in (PayloadEnd + 1)..TableOff : Out[j] = 0
    /\ DirNumBuckets = NumBuckets
    /\ Len(Out) = TableOff + 2 * WordSize + WordSize * NumBuckets

\* an emitted table whose payload ends one byte after a multiple of 4: three
\* bytes of padding
C7_Witness ==
  /\ pc = "emitted"
  /\ NumEntries > 0
  /\ PayloadEnd % 4 = 1
  /\ TableOff = PayloadEnd + 3

---------------------------------------------------------------------------
(* C8: the header words of the directory.                                  *)

\* n is a power of two, n >= 1
IsPowerOfTwo(n) == \E e \in 0..30 : n = 2 ^ e

\* C8: the NumBuckets field of the emitted directory is a power of two, the
\* NumEntries field is the number of insert calls, and exactly NumBuckets
\* offset words follow.
C8_DirectoryHeader ==
  pc = "emitted" =>
    /\ IsPowerOfTwo(DirNumBuckets)
    /\ DirNumEntries = Len(inserted)
    /\ Len(Out) = TableOff + 2 * WordSize + WordSize * DirNumBuckets

\* a directory written after a resize, of 128 buckets and more than 48 entries
C8_Witness ==
  /\ pc = "emitted"
  /\ DirNumBuckets = 2 * InitialBuckets
  /\ DirNumEntries = Len(inserted)
  /\ Len(inserted) > 48

---------------------------------------------------------------------------
(* C9: the load factor.                                                    *)

\* C9: in every state of the builder, between calls and at Emit,
\* 4 * NumEntries < 3 * NumBuckets.
C9_LoadFactorBelowThreeQuarters == 4 * NumEntries < 3 * NumBuckets

\* the insert that brought 48 entries has doubled the 64 buckets
C9_Witness ==
  pc = "building" /\ NumEntries = 48 /\ NumBuckets = 2 * InitialBuckets

---------------------------------------------------------------------------
(* C10: the first doubling, for the keys 0, 1, 2, ... inserted in order.   *)

\* C10 as stated: there are 64 buckets after the first 48 inserts, and 128
\* once there are 49 entries: the insert of key 48 doubles the table.
C10_DoublesAtEntry49 ==
  ~extra =>
    /\ NumEntries <= 48 => (NumBuckets = InitialBuckets /\ resizedAt = 0)
    /\ NumEntries >= 49 => (NumBuckets = 2 * InitialBuckets /\ resizedAt = 48)

\* C10 (amended): there are 64 buckets after the first 47 inserts, and 128
\* once there are 48 entries: the insert of key 47, the 48th, doubles the
\* table (4 * 48 = 192 >= 3 * 64 = 192).
C10_DoublesAtEntry48 ==
  ~extra =>
    /\ NumEntries <= 47 => (NumBuckets = InitialBuckets /\ resizedAt = 0)
    /\ NumEntries >= 48 =>
         /\ NumBuckets = 2 * InitialBuckets
         /\ resizedAt = 47
         /\ inserted[resizedAt + 1].Key = 47

\* the keys 0..47 were inserted in order and the table has 128 buckets
C10_Witness ==
  /\ ~extra
  /\ pc = "building"
  /\ NumEntries = 48
  /\ inserted[48].Key = 47
  /\ NumBuckets = 2 * InitialBuckets

---------------------------------------------------------------------------
(* C11: the chains of the builder, across resizes.                         *)

\* how often the entry (Key, Data) is linked in Chain
TimesLinked(Chain, Key, Data) ==
  Cardinality({p \in DOMAIN Chain : Chain[p].Key = Key /\ Chain[p].Data = Data})

\* how many insert calls were made with (Key, Data)
TimesInserted(Key, Data) ==
  Cardinality({j \in DOMAIN inserted :
                 inserted[j].Key = Key /\ inserted[j].Data = Data})

RECURSIVE SumOfLengths(_, _)
\* the sum of the cached Length of the buckets Lo..Hi
SumOfLengths(Lo, Hi) ==
  IF Lo > Hi THEN 0
  ELSE IF Lo = Hi THEN Buckets[Lo].Length
  ELSE SumOfLengths(Lo, (Lo + Hi) \div 2) + SumOfLengths((Lo + Hi) \div 2 + 1, Hi)

\* C11: in every state of the builder, every entry inserted so far is linked,
\* once per insert call, in the chain at index hash AND (NumBuckets - 1) and
\* in no other chain (every linked item is in the chain its hash selects, and
\* the chains hold NumEntries items in all); each bucket's cached Length is
\* the number of items of its chain; the lengths sum to NumEntries.
C11_GrowthPreservesEntries ==
  /\ DOMAIN Buckets = 0..(NumBuckets - 1)
  /\ NumEntries = Len(inserted)
  /\ \A j \in DOMAIN inserted :
       TimesLinked(Buckets[MaskIndex(ComputeHash(inserted[j].Key), NumBuckets)].Head,
                   inserted[j].Key, inserted[j].Data)
         = TimesInserted(inserted[j].Key, inserted[j].Data)
  /\ \A I \in DOMAIN Buckets :
       /\ Buckets[I].Length = Len(Buckets[I].Head)
       /\ \A p \in DOMAIN Buckets[I].Head :
            /\ MaskIndex(Buckets[I].Head[p].Hash, NumBuckets) = I
            /\ Buckets[I].Head[p].Hash = ComputeHash(Buckets[I].Head[p].Key)
  /\ SumOfLengths(0, NumBuckets - 1) = NumEntries

\* a builder after a resize that moved a chain of two entries, both inserted
\* before it, one of which is now in a bucket of the upper half
C11_Witness ==
  /\ pc = "building"
  /\ NumBuckets = 2 * InitialBuckets
  /\ Buckets[7].Length = 1
  /\ \E j \in DOMAIN inserted :
       /\ j <= resizedAt
       /\ inserted[j].Key = 7 + InitialBuckets
       /\ Buckets[7 + InitialBuckets].Length = 1
       /\ 7 \in {inserted[i].Key : i \in 1..resizedAt}

====
